---- MODULE Spec2Model ----
(***************************************************************************)
(* lmc: the streaming markdown renderer (src/src/writer.rs) over the       *)
(* style tagger (src/src/highlight.rs).                                    *)
(*                                                                         *)
(* Text is a sequence of bytes, one one-character string per byte; byte    *)
(* offsets are 0-based as in the Rust code, so source[a..b] is             *)
(* Slice(source, a, b).                                                    *)
(***************************************************************************)
EXTENDS Integers, Sequences, FiniteSets, TLC

NL == "\n"
\* The backtick byte (0x60) and the escape byte (0x1b), by name.
BT == "BT"
ESC == "ESC"

Slice(s, a, b) == SubSeq(s, a + 1, b)

SliceFrom(s, a) == SubSeq(s, a + 1, Len(s))

ends_with(s, c) == Len(s) > 0 /\ s[Len(s)] = c

IsPrefix(p, s) == Len(p) <= Len(s) /\ SubSeq(s, 1, Len(p)) = p

Max(S) == CHOOSE x \in S : \A y \in S : y <= x

Min(S) == CHOOSE x \in S : \A y \in S : x <= y

(***************************************************************************)
(* highlight.rs: the ANSI style sequences.                                 *)
(***************************************************************************)
STYLE_BOLD == <<ESC, "[", "1", "m">>
STYLE_DEFAULT_BG == <<ESC, "[", "4", "9", "m">>
STYLE_DEFAULT_FG == <<ESC, "[", "3", "9", "m">>
STYLE_GRAY_BG == <<ESC, "[", "1", "0", "0", "m">>
STYLE_REGULAR == <<ESC, "[", "2", "2", "m">>
STYLE_YELLOW_FG == <<ESC, "[", "3", "3", "m">>

TagKind == {"CodeBegin", "CodeEnd", "HeadingBegin", "HeadingEnd", "StrongBegin", "StrongEnd"}

Tag(kind, position) == [kind |-> kind, position |-> position]

(***************************************************************************)
(* MarkdownParser::parse (crate tree_sitter_md, called at highlight.rs     *)
(* 33-36).  The parser is the CommonMark grammar; what is modelled is the  *)
(* part of it that decides the four node kinds find_tags looks at, for     *)
(* lines that start at column 0: ATX headings, backtick-fenced code        *)
(* blocks, paragraphs and blank lines at block level; code spans and       *)
(* star-delimited emphasis (the delimiter-run algorithm) at inline level.  *)
(* Node ranges are those the test at highlight.rs 106-143 shows: a heading *)
(* and a fenced block end after their last line terminator, an inline span *)
(* at its closing delimiter.                                               *)
(***************************************************************************)
RECURSIVE LineEnd(_, _)
LineEnd(s, pos) ==
    IF pos >= Len(s) THEN Len(s)
    ELSE IF s[pos + 1] = NL THEN pos
    ELSE LineEnd(s, pos + 1)

NextLine(s, pos) ==
    LET le == LineEnd(s, pos) IN IF le < Len(s) THEN le + 1 ELSE Len(s)

RECURSIVE RunLen(_, _, _, _)
RunLen(s, pos, end, c) ==
    IF pos < end /\ s[pos + 1] = c THEN 1 + RunLen(s, pos + 1, end, c) ELSE 0

OnlySpaces(s, a, b) == \A i \in a .. (b - 1) : s[i + 1] = " "

IsBlankLine(s, pos, le) == OnlySpaces(s, pos, le)

IsFenceOpen(s, pos, le) ==
    LET k == RunLen(s, pos, le, BT)
    IN k >= 3 /\ \A i \in (pos + k) .. (le - 1) : s[i + 1] # BT

IsFenceClose(s, pos, le, n) ==
    LET k == RunLen(s, pos, le, BT)
    IN k >= n /\ OnlySpaces(s, pos + k, le)

IsAtxHeading(s, pos, le) ==
    LET k == RunLen(s, pos, le, "#")
    IN k >= 1 /\ k <= 6 /\ (pos + k = le \/ s[pos + k + 1] = " ")

AtxContentStart(s, pos, le) ==
    LET k == RunLen(s, pos, le, "#")
    IN pos + k + RunLen(s, pos + k, le, " ")

Block(kind, start, end, cstart, cend) ==
    [kind |-> kind, start |-> start, end |-> end, cstart |-> cstart, cend |-> cend]

NoneOpen == [kind |-> "none", start |-> 0, n |-> 0, cend |-> 0]

\* The paragraph that open holds, closed before the line at pos.
CloseParagraph(open, pos) ==
    IF open.kind = "paragraph"
    THEN <<Block("paragraph", open.start, pos, open.start, open.cend)>>
    ELSE <<>>

RECURSIVE ParseBlocks(_, _, _, _)
ParseBlocks(s, pos, open, acc) ==
    IF pos >= Len(s)
    THEN IF open.kind = "fence"
         THEN acc \o <<Block("fenced_code_block", open.start, Len(s), 0, 0)>>
         ELSE acc \o CloseParagraph(open, Len(s))
    ELSE LET le == LineEnd(s, pos)
             next == NextLine(s, pos)
         IN IF open.kind = "fence"
            THEN IF IsFenceClose(s, pos, le, open.n)
                 THEN ParseBlocks(s, next, NoneOpen,
                          acc \o <<Block("fenced_code_block", open.start, next, 0, 0)>>)
                 ELSE ParseBlocks(s, next, open, acc)
            ELSE IF IsFenceOpen(s, pos, le)
            THEN ParseBlocks(s, next,
                     [kind |-> "fence", start |-> pos, n |-> RunLen(s, pos, le, BT), cend |-> 0],
                     acc \o CloseParagraph(open, pos))
            ELSE IF IsAtxHeading(s, pos, le)
            THEN ParseBlocks(s, next, NoneOpen,
                     acc \o CloseParagraph(open, pos)
                         \o <<Block("atx_heading", pos, next, AtxContentStart(s, pos, le), le)>>)
            ELSE IF IsBlankLine(s, pos, le)
            THEN ParseBlocks(s, next, NoneOpen, acc \o CloseParagraph(open, pos))
            ELSE IF open.kind = "paragraph"
            THEN ParseBlocks(s, next, [open EXCEPT !.cend = le], acc)
            ELSE ParseBlocks(s, next,
                     [kind |-> "paragraph", start |-> pos, n |-> 0, cend |-> le], acc)

Span(kind, start, end) == [kind |-> kind, start |-> start, end |-> end]

\* The offset of the next backtick run of length exactly k at or after j, or -1.
RECURSIVE FindCloser(_, _, _, _)
FindCloser(s, j, ce, k) ==
    IF j >= ce THEN -1
    ELSE IF s[j + 1] = BT
    THEN LET r == RunLen(s, j, ce, BT)
         IN IF r = k THEN j ELSE FindCloser(s, j + r, ce, k)
    ELSE FindCloser(s, j + 1, ce, k)

RECURSIVE CodeSpans(_, _, _)
CodeSpans(s, i, ce) ==
    IF i >= ce THEN <<>>
    ELSE IF s[i + 1] = BT
    THEN LET k == RunLen(s, i, ce, BT)
             c == FindCloser(s, i + k, ce, k)
         IN IF c >= 0
            THEN <<Span("code_span", i, c + k)>> \o CodeSpans(s, c + k, ce)
            ELSE CodeSpans(s, i + k, ce)
    ELSE CodeSpans(s, i + 1, ce)

InSpans(spans, i) == \E n \in 1 .. Len(spans) : spans[n].start <= i /\ i < spans[n].end

IsWhitespace(c) == c \in {" ", NL}

IsPunctuation(c) == c \in {"#", BT, "*", "[", ESC}

LeftFlanking(prev, next) ==
    /\ ~IsWhitespace(next)
    /\ (~IsPunctuation(next) \/ IsWhitespace(prev) \/ IsPunctuation(prev))

RightFlanking(prev, next) ==
    /\ ~IsWhitespace(prev)
    /\ (~IsPunctuation(prev) \/ IsWhitespace(next) \/ IsPunctuation(next))

\* The runs of stars outside code spans, with what each may open and close.
RECURSIVE DelimiterRuns(_, _, _, _, _)
DelimiterRuns(s, i, cs, ce, code) ==
    IF i >= ce THEN <<>>
    ELSE IF InSpans(code, i) \/ s[i + 1] # "*"
    THEN DelimiterRuns(s, i + 1, cs, ce, code)
    ELSE LET k == RunLen(s, i, ce, "*")
             prev == IF i = cs THEN " " ELSE s[i]
             next == IF i + k >= ce THEN " " ELSE s[i + k + 1]
         IN <<[pos |-> i, len |-> k, orig |-> k,
               open |-> LeftFlanking(prev, next),
               close |-> RightFlanking(prev, next)]>>
            \o DelimiterRuns(s, i + k, cs, ce, code)

\* CommonMark's rule of three for an opener o and a closer c.
RuleOfThree(o, c) ==
    ~ /\ (o.close \/ c.open)
      /\ (o.orig + c.orig) % 3 = 0
      /\ ~(o.orig % 3 = 0 /\ c.orig % 3 = 0)

RECURSIVE ProcessEmphasis(_, _, _)
ProcessEmphasis(ds, c, acc) ==
    IF c > Len(ds) THEN acc
    ELSE IF ~(ds[c].close /\ ds[c].len > 0) THEN ProcessEmphasis(ds, c + 1, acc)
    ELSE LET openers == {o \in 1 .. (c - 1) :
                            ds[o].open /\ ds[o].len > 0 /\ RuleOfThree(ds[o], ds[c])}
         IN IF openers = {}
            THEN ProcessEmphasis(
                     IF ds[c].open THEN ds ELSE [ds EXCEPT ![c].len = 0], c + 1, acc)
            ELSE LET o == Max(openers)
                     use == IF ds[o].len >= 2 /\ ds[c].len >= 2 THEN 2 ELSE 1
                     node == Span(IF use = 2 THEN "strong_emphasis" ELSE "emphasis",
                                  ds[o].pos + ds[o].len - use, ds[c].pos + use)
                     ds2 == [i \in 1 .. Len(ds) |->
                                IF i = o THEN [ds[i] EXCEPT !.len = @ - use]
                                ELSE IF i = c
                                THEN [ds[i] EXCEPT !.len = @ - use, !.pos = @ + use]
                                ELSE IF o < i /\ i < c THEN [ds[i] EXCEPT !.len = 0]
                                ELSE ds[i]]
                 IN ProcessEmphasis(ds2, c, acc \o <<node>>)

\* The spans of the inline content [cs, ce) of a paragraph or heading.
InlineSpans(s, cs, ce) ==
    LET code == CodeSpans(s, cs, ce)
    IN code \o ProcessEmphasis(DelimiterRuns(s, cs, cs, ce, code), 1, <<>>)

Contains(a, b) == a.start <= b.start /\ b.end <= a.end /\ a # b

\* Document order: an outer span before the spans it contains.
Before(a, b) == a.start < b.start \/ (a.start = b.start /\ a.end > b.end)

Node(kind, start, end, depth) ==
    [kind |-> kind, start |-> start, end |-> end, depth |-> depth]

\* The spans as tree nodes in pre-order, below an inline node of depth d.
InlineNodes(spans, d) ==
    LET n == Len(spans)
        rank(i) == Cardinality({j \in 1 .. n : Before(spans[j], spans[i])})
        at(r) == CHOOSE i \in 1 .. n : rank(i) = r - 1
    IN [r \in 1 .. n |->
           LET sp == spans[at(r)]
           IN Node(sp.kind, sp.start, sp.end,
                   d + 1 + Cardinality({j \in 1 .. n : Contains(spans[j], sp)}))]

BlockNodes(s, b) ==
    <<Node(b.kind, b.start, b.end, 1)>>
    \o (IF b.cstart < b.cend
        THEN <<Node("inline", b.cstart, b.cend, 2)>>
             \o InlineNodes(InlineSpans(s, b.cstart, b.cend), 2)
        ELSE <<>>)

RECURSIVE FlattenBlocks(_, _, _)
FlattenBlocks(s, blocks, i) ==
    IF i > Len(blocks) THEN <<>>
    ELSE BlockNodes(s, blocks[i]) \o FlattenBlocks(s, blocks, i + 1)

\* The parse tree: its nodes in pre-order, each with its depth.
parse(source) ==
    <<Node("document", 0, Len(source), 0)>>
    \o FlattenBlocks(source, ParseBlocks(source, 0, NoneOpen, <<>>), 1)

(***************************************************************************)
(* The tree cursor (tree.walk()) over the pre-order node list: 0 is "no    *)
(* such node".                                                             *)
(***************************************************************************)
goto_first_child(nodes, i) ==
    IF i < Len(nodes) /\ nodes[i + 1].depth = nodes[i].depth + 1 THEN i + 1 ELSE 0

goto_next_sibling(nodes, i) ==
    LET after == {j \in (i + 1) .. Len(nodes) : nodes[j].depth <= nodes[i].depth}
    IN IF after # {} /\ nodes[Min(after)].depth = nodes[i].depth THEN Min(after) ELSE 0

goto_parent(nodes, i) ==
    LET above == {j \in 1 .. (i - 1) : nodes[j].depth = nodes[i].depth - 1}
    IN IF above # {} THEN Max(above) ELSE 0

\* NodeTags without the fenced code block among the code kinds.
NodeTags_no_fence(node) ==
    CASE node.kind = "atx_heading" ->
             <<Tag("HeadingBegin", node.start), Tag("HeadingEnd", node.end)>>
      [] node.kind = "code_span" ->
             <<Tag("CodeBegin", node.start), Tag("CodeEnd", node.end)>>
      [] node.kind = "strong_emphasis" ->
             <<Tag("StrongBegin", node.start), Tag("StrongEnd", node.end)>>
      [] OTHER -> <<>>

\* find_tags, the match on node.kind().
NodeTags(node) ==
    CASE node.kind = "atx_heading" ->
             <<Tag("HeadingBegin", node.start), Tag("HeadingEnd", node.end)>>
      [] node.kind \in {"code_span", "fenced_code_block"} ->
             <<Tag("CodeBegin", node.start), Tag("CodeEnd", node.end)>>
      [] node.kind = "strong_emphasis" ->
             <<Tag("StrongBegin", node.start), Tag("StrongEnd", node.end)>>
      [] OTHER -> <<>>

\* find_tags, the loop: one call per iteration.
RECURSIVE Walk(_, _, _, _)
Walk(nodes, i, visited, tags) ==
    LET pushed == IF ~visited THEN tags \o NodeTags(nodes[i]) ELSE tags
    IN IF ~visited /\ goto_first_child(nodes, i) # 0
       THEN Walk(nodes, goto_first_child(nodes, i), visited, pushed)
       ELSE IF goto_next_sibling(nodes, i) # 0
       THEN Walk(nodes, goto_next_sibling(nodes, i), FALSE, pushed)
       ELSE IF goto_parent(nodes, i) # 0
       THEN Walk(nodes, goto_parent(nodes, i), TRUE, pushed)
       ELSE pushed

\* The nodes the loop of find_tags examines (the match on node.kind(), taken
\* when the node is entered and not when the cursor is back from its
\* children), in the order it examines them.
RECURSIVE Examined(_, _, _, _)
Examined(nodes, i, visited, order) ==
    LET matched == IF ~visited THEN Append(order, i) ELSE order
    IN IF ~visited /\ goto_first_child(nodes, i) # 0
       THEN Examined(nodes, goto_first_child(nodes, i), visited, matched)
       ELSE IF goto_next_sibling(nodes, i) # 0
       THEN Examined(nodes, goto_next_sibling(nodes, i), FALSE, matched)
       ELSE IF goto_parent(nodes, i) # 0
       THEN Examined(nodes, goto_parent(nodes, i), TRUE, matched)
       ELSE matched

\* tags.sort_by_key(|tag| tag.position): a stable sort.
RECURSIVE InsertByKey(_, _)
InsertByKey(sorted, tag) ==
    IF sorted = <<>> THEN <<tag>>
    ELSE IF sorted[Len(sorted)].position <= tag.position THEN Append(sorted, tag)
    ELSE Append(InsertByKey(SubSeq(sorted, 1, Len(sorted) - 1), tag), sorted[Len(sorted)])

RECURSIVE sort_by_key(_)
sort_by_key(tags) ==
    IF tags = <<>> THEN <<>>
    ELSE InsertByKey(sort_by_key(SubSeq(tags, 1, Len(tags) - 1)), tags[Len(tags)])

\* find_tags returning the tags as the walk pushed them, unsorted.
find_tags_unsorted(tree) == Walk(tree, 1, FALSE, <<>>)

find_tags(tree) == sort_by_key(Walk(tree, 1, FALSE, <<>>))

\* Style with HeadingEnd mapped to the background reset (a slip between the
\* two DEFAULT constants).
Style_heading_end_bg(kind) ==
    CASE kind = "CodeBegin" -> STYLE_GRAY_BG
      [] kind = "CodeEnd" -> STYLE_DEFAULT_BG
      [] kind = "HeadingBegin" -> STYLE_YELLOW_FG
      [] kind = "HeadingEnd" -> STYLE_DEFAULT_BG
      [] kind = "StrongBegin" -> STYLE_BOLD
      [] kind = "StrongEnd" -> STYLE_REGULAR

\* Style with StrongEnd mapped to SGR 0, which resets every attribute.
Style_strong_end_reset(kind) ==
    CASE kind = "CodeBegin" -> STYLE_GRAY_BG
      [] kind = "CodeEnd" -> STYLE_DEFAULT_BG
      [] kind = "HeadingBegin" -> STYLE_YELLOW_FG
      [] kind = "HeadingEnd" -> STYLE_DEFAULT_FG
      [] kind = "StrongBegin" -> STYLE_BOLD
      [] kind = "StrongEnd" -> <<ESC, "[", "0", "m">>

\* highlight_markdown, the match on tag.kind.
Style(kind) ==
    CASE kind = "CodeBegin" -> STYLE_GRAY_BG
      [] kind = "CodeEnd" -> STYLE_DEFAULT_BG
      [] kind = "HeadingBegin" -> STYLE_YELLOW_FG
      [] kind = "HeadingEnd" -> STYLE_DEFAULT_FG
      [] kind = "StrongBegin" -> STYLE_BOLD
      [] kind = "StrongEnd" -> STYLE_REGULAR

\* highlight_markdown, the loop over the tags and the push of the rest.
\* Compose without the text after the last tag.
RECURSIVE Compose_without_rest(_, _, _, _, _)
Compose_without_rest(source, tags, t, position, highlighted) ==
    IF t > Len(tags) THEN highlighted
    ELSE Compose_without_rest(source, tags, t + 1, tags[t].position,
             highlighted \o Slice(source, position, tags[t].position)
                 \o Style(tags[t].kind))

RECURSIVE Compose(_, _, _, _, _)
Compose(source, tags, t, position, highlighted) ==
    IF t > Len(tags) THEN highlighted \o SliceFrom(source, position)
    ELSE Compose(source, tags, t + 1, tags[t].position,
             highlighted \o Slice(source, position, tags[t].position)
                         \o Style(tags[t].kind))

highlight_markdown(source) == Compose(source, find_tags(parse(source)), 1, 0, <<>>)

(***************************************************************************)
(* writer.rs: StreamWriter.  A writer is the record of its fields; sink is *)
(* what stdout has received, panicked is set where the Rust code panics    *)
(* (a slice whose start is past its end or past the length).               *)
(***************************************************************************)
new ==
    [original |-> <<>>, highlighted |-> <<>>, written |-> 0, sink |-> <<>>,
     panicked |-> FALSE]

\* str::rfind(c): the offset of the last c in s, or -1 for None.
rfind(s, c) ==
    LET at == {i \in 0 .. (Len(s) - 1) : s[i + 1] = c}
    IN IF at = {} THEN -1 ELSE Max(at)

\* previous_line searching the whole buffer, its last byte included.
previous_line_whole(highlighted) == rfind(highlighted, NL)

\* highlight_and_write, line 52: highlighted[0..len - 1].rfind('\n').
previous_line(highlighted) == rfind(Slice(highlighted, 0, Len(highlighted) - 1), NL)

\* advanced without the addition: written is left where it was.
advanced_not(written, delta) == written

\* highlight_and_write, line 57: self.written += delta.len().
advanced(written, delta) == written + Len(delta)

highlight_and_write(self, until_end) ==
    LET highlighted == CHOOSE h \in {highlight_markdown(self.original)} : TRUE
        w == [self EXCEPT !.highlighted = highlighted]
    IN IF until_end
       THEN IF w.written > Len(highlighted)
            THEN [w EXCEPT !.panicked = TRUE]
            ELSE [w EXCEPT !.sink = @ \o SliceFrom(highlighted, w.written)]
       ELSE IF Len(highlighted) = 0
            THEN [w EXCEPT !.panicked = TRUE]
            ELSE LET position == previous_line(highlighted)
                 IN IF position < 0 THEN w
                    ELSE IF w.written > position
                    THEN [w EXCEPT !.panicked = TRUE]
                    ELSE LET delta == Slice(highlighted, w.written, position)
                         IN [w EXCEPT !.sink = @ \o delta,
                                      !.written = advanced(@, delta)]

\* triggers_pass on any line terminator in the token, not only a final one.
triggers_pass_contains(token) == \E i \in 1 .. Len(token) : token[i] = NL

\* add_token, line 28: whether the token triggers a re-styling pass.
triggers_pass(token) == ends_with(token, NL)

add_token(self, token) ==
    LET w == [self EXCEPT !.original = @ \o token]
    IN IF triggers_pass(token) THEN highlight_and_write(w, FALSE) ELSE w

\* terminated leaving an empty buffer empty.
terminated_unless_empty(original) ==
    IF original # <<>> /\ ~ends_with(original, NL) THEN Append(original, NL) ELSE original

\* terminated appending a line terminator whatever the buffer ends with.
terminated_always(original) == Append(original, NL)

\* complete, lines 36-40: the raw buffer made to end with a line terminator.
terminated(original) ==
    IF ~ends_with(original, NL) THEN Append(original, NL) ELSE original

complete(self) ==
    highlight_and_write([self EXCEPT !.original = terminated(@)], TRUE)

(***************************************************************************)
(* The calls where the tagger or the sink may fail.  A call yields its     *)
(* io::Result: the writer as the call leaves it and the error, "" for Ok.  *)
(* The fault is the first operation that fails: the tagger (line 46), a    *)
(* write_all that is reached with bytes to write (lines 49, 55; any proper *)
(* prefix of the bytes may have reached the sink) or the flush after it    *)
(* (lines 50, 56).                                                         *)
(***************************************************************************)
Faults == {"none", "tagger", "write", "flush"}

Result(w, error) == [writer |-> w, error |-> error]

\* The results of a pass that, with nothing failing, takes the writer self to
\* the writer done: the fault strikes where a write is reached.
Faulted(self, done, until_end, fault) ==
    LET delta == SubSeq(done.sink, Len(self.sink) + 1, Len(done.sink))
        reached == until_end \/ previous_line(done.highlighted) >= 0
    IN IF done.panicked \/ ~reached \/ fault = "none" THEN {Result(done, "")}
       ELSE IF fault = "write"
       THEN IF delta = <<>> THEN {Result(done, "")}
            ELSE {Result([done EXCEPT !.sink = self.sink \o SubSeq(delta, 1, k),
                                      !.written = self.written], "write") :
                     k \in 0 .. (Len(delta) - 1)}
       ELSE {Result([done EXCEPT !.written = self.written], "flush")}

\* The results highlight_and_write may yield under a fault.
highlight_and_write_io(self, until_end, fault) ==
    IF fault = "tagger" THEN {Result(self, "tagger")}
    ELSE UNION {Faulted(self, done, until_end, fault) :
                   done \in {highlight_and_write(self, until_end)}}

add_token_io(self, token, fault) ==
    LET w == [self EXCEPT !.original = @ \o token]
    IN IF triggers_pass(token) THEN highlight_and_write_io(w, FALSE, fault)
       ELSE {Result(w, "")}

complete_io(self, fault) ==
    highlight_and_write_io([self EXCEPT !.original = terminated(@)], TRUE, fault)

(***************************************************************************)
(* The responses the model streams: up to MaxLines lines of Vocabulary,    *)
(* each with its line terminator, and the scenario texts.                  *)
(***************************************************************************)
MaxLines == 3

Vocabulary ==
    { <<"a">>,
      <<"#", " ", "a">>,
      <<"*", "*", "a">>,
      <<"a", "*", "*">>,
      <<BT, "*", "*", "a", "*", "*">>,
      <<BT>>,
      <<BT, BT, BT>> }

RECURSIVE Documents(_)
Documents(n) ==
    IF n = 0 THEN {<<>>}
    ELSE LET shorter == Documents(n - 1)
         IN shorter \cup {d \o l \o <<NL>> : d \in shorter, l \in Vocabulary}

Title == <<"#", " ", "T", "i", "t", "l", "e", NL>>
BoldFirst == <<"*", "*", "b", "o">>
BoldSecond == <<"l", "d", "*", "*", NL>>
PlainText == <<"p", "l", "a", "i", "n", " ", "t", "e", "x", "t">>

Bold == BoldFirst \o BoldSecond
\* A strong span nested in a heading, and two paragraphs split by a blank line.
Nested == <<"#", " ", "*", "*", "a", "*", "*", " ", "a", NL>>
Paragraphs == <<"*", "*", "a", NL, NL, "a", "*", "*", NL>>

\* A heading with a strong span inside, and a strong span right after it.
NestedThenBold ==
    <<"#", " ", "*", "*", "a", "*", "*", NL, "*", "*", "a", "*", "*", NL>>

\* A strong span over two lines after a backtick, and a closing backtick on
\* the third line.
StrongThenBacktick ==
    <<BT, "*", "*", "a", NL, "b", "*", "*", NL, BT, NL>>

Scenarios ==
    {Title, Bold, PlainText, Nested, Paragraphs, NestedThenBold, StrongThenBacktick}

Inputs == (Documents(MaxLines) \ {<<>>}) \cup Scenarios

(***************************************************************************)
(* api.rs and main.rs: the events of a streamed response and the           *)
(* conversation of the interactive loop.  An Option is <<>> for None and   *)
(* <<x>> for Some(x).                                                      *)
(***************************************************************************)
None == <<>>

Some(x) == <<x>>

\* What the event stream hands to parse_event_data: a data event with or
\* without content in its first choice, a data event without choices, the
\* [DONE] event, data that is no JSON, or a failure of the stream itself.
Item(kind, content) == [kind |-> kind, content |-> content]

\* parse_event_data yielding empty text where the first choice has no content.
parse_event_data_default(item) ==
    CASE item.kind = "broken" -> [error |-> "Failed to read event", value |-> None]
      [] item.kind = "done" -> [error |-> "", value |-> None]
      [] item.kind = "malformed" -> [error |-> "json", value |-> None]
      [] item.kind = "nochoice" -> [error |-> "", value |-> None]
      [] item.kind = "data" ->
             [error |-> "",
              value |-> IF item.content = None THEN Some(<<>>) ELSE item.content]

parse_event_data(item) ==
    CASE item.kind = "broken" -> [error |-> "Failed to read event", value |-> None]
      [] item.kind = "done" -> [error |-> "", value |-> None]
      [] item.kind = "malformed" -> [error |-> "json", value |-> None]
      [] item.kind = "nochoice" -> [error |-> "", value |-> None]
      [] item.kind = "data" -> [error |-> "", value |-> item.content]

Message(role, content) == [role |-> role, content |-> content]

create_messages(system_prompt) ==
    IF system_prompt = None THEN <<>> ELSE <<Message("system", system_prompt[1])>>

\* /retry dropping the last message whatever its role.
retried_any(messages) ==
    IF messages # <<>> THEN SubSeq(messages, 1, Len(messages) - 1) ELSE messages

\* run_interactive_loop, line 76-80: /retry drops a last Assistant message.
retried(messages) ==
    IF messages # <<>> /\ messages[Len(messages)].role = "assistant"
    THEN SubSeq(messages, 1, Len(messages) - 1)
    ELSE messages

\* push_completion appending an Assistant message whatever the result.
push_completion_always(messages, error, completion) ==
    Append(messages, Message("assistant", completion))

\* run_interactive_loop, lines 90-93: the history and the standard error
\* after get_and_print_completion has returned Ok(completion) or Err(error).
push_completion(messages, error, completion) ==
    IF error = "" THEN Append(messages, Message("assistant", completion)) ELSE messages

eprinted(reported, error) ==
    IF error = "" THEN reported ELSE Append(reported, error)

\* The bound of a session: the lines read from the console.
MaxTurns == 2

Quit == {<<"/", "q">>, <<"/", "q", "u", "i", "t">>}

Retry == {<<"/", "r">>, <<"/", "r", "e", "t", "r", "y">>}

UserPrompt == <<"h", "i">>

SystemPrompt == <<"s">>

\* read_interactive_input: None at end of input, or a line.
ConsoleInputs == {None} \cup {Some(line) : line \in Quit \cup Retry \cup {<<>>, UserPrompt}}

\* The texts the server streams in a session.
Responses == { <<"a">>, <<"#", " ", "a", NL, "a", NL>> }

\* The items that may come next when the items of arrived have come and text
\* is still to be sent.  A text token goes up to a line terminator or to the
\* end of the text; an event without text (no content, no choice, or empty
\* content) opens the stream, [DONE] closes it, and the stream may break or
\* carry malformed data at any point.
Items(arrived, text) ==
    {Item("data", Some(SubSeq(text, 1, k))) :
        k \in {j \in 1 .. Len(text) : j = Len(text) \/ text[j] = NL}}
        \cup (IF arrived = <<>>
              THEN {Item("data", None), Item("nochoice", None), Item("data", Some(<<>>))}
              ELSE {})
        \cup (IF text = <<>> /\ arrived # <<>> /\ arrived[Len(arrived)].kind # "done"
              THEN {Item("done", None)}
              ELSE {})
        \cup {Item("malformed", None), Item("broken", None)}

\* The end of the stream, as the history of arrivals records it.
End == Item("end", None)

\* The calls on the StreamWriter, as the history of calls records them.
Call(op, token) == [op |-> op, token |-> token]

(***************************************************************************)
(* config.rs: profiles and their resolution.  A Result is a record of an   *)
(* error and a value: the error is <<>> for Ok, or the words of the        *)
(* message and the name the message quotes.                                *)
(***************************************************************************)
Ok(value) == [error |-> <<>>, value |-> value]

Err(error) == [error |-> error, value |-> None]

NoSuchProfile(name) == <<"No such configuration profile", name>>

CircularReferences(name) == <<"Circular extends references", name>>

NoApiUrl == <<"No api_url provided">>

NoModel == <<"No model provided">>

Profile(api_key, api_url, extends, model, system_prompt, temperature) ==
    [api_key |-> api_key, api_url |-> api_url, extends |-> extends, model |-> model,
     system_prompt |-> system_prompt, temperature |-> temperature]

\* Profile::new()
Profile_new == Profile(None, None, None, None, None, None)

Config(api_url, api_key, model, system_prompt, temperature) ==
    [api_url |-> api_url, api_key |-> api_key, model |-> model,
     system_prompt |-> system_prompt, temperature |-> temperature]

\* The options of the command line that get_config reads.
Args(api_url, api_key, model, system_prompt, temperature, profile) ==
    [api_url |-> api_url, api_key |-> api_key, model |-> model,
     system_prompt |-> system_prompt, temperature |-> temperature, profile |-> profile]

from_profile(profile) ==
    IF profile.api_url = None THEN Err(NoApiUrl)
    ELSE IF profile.model = None THEN Err(NoModel)
    ELSE Ok(Config(profile.api_url[1], profile.api_key, profile.model[1],
                   profile.system_prompt, profile.temperature))

\* merge_with keeping the fields the profile already has.
merge_with_keep(profile, other) ==
    [f \in DOMAIN profile |-> IF profile[f] # None THEN profile[f] ELSE other[f]]

merge_with(profile, other) ==
    [f \in DOMAIN profile |-> IF other[f] # None THEN other[f] ELSE profile[f]]

override_with_args(profile, args) ==
    [f \in DOMAIN profile |->
        IF f # "extends" /\ args[f] # None THEN args[f] ELSE profile[f]]

\* get_config, lines 139-141, on the result of resolve_profile.
configured(selected, args) ==
    IF selected.error # <<>> THEN selected
    ELSE from_profile(override_with_args(selected.value, args))

\* resolve_profile, line 168: the name of the selected profile.
selected_name(profile_arg) == IF profile_arg = None THEN "default" ELSE profile_arg[1]

\* unresolved falling back to an empty profile whatever the argument.
unresolved_empty(profile_arg) == Ok(Profile_new)

\* resolve_profile, lines 178-181: no profile has the selected name.
unresolved(profile_arg) ==
    IF profile_arg = None THEN Ok(Profile_new)
    ELSE Err(NoSuchProfile(profile_arg[1]))

\* A membership test that leaves the extends field out of the comparison.
contains_but_extends(hierarchy, parent) ==
    \E i \in 1 .. Len(hierarchy) :
        [hierarchy[i] EXCEPT !.extends = None] = [parent EXCEPT !.extends = None]

\* flatten_profile_hierarchy, line 196: hierarchy.contains(&parent) compares
\* the profiles, field by field.
contains(hierarchy, parent) == \E i \in 1 .. Len(hierarchy) : hierarchy[i] = parent

\* flatten_profile_hierarchy, lines 203-207: the hierarchy merged from its
\* last profile, the root, to its first, the selected one.
RECURSIVE merged(_, _, _)
merged(hierarchy, i, profile) ==
    IF i = 0 THEN profile
    ELSE merged(hierarchy, i - 1, merge_with(profile, hierarchy[i]))

\* The configuration files and command lines of the model: up to three
\* profiles, each one of three sets of fields and either extending nothing, a
\* profile name of the file or a name the file does not have.
ProfileNames == {"default", "groq", "poet"}

UnknownName == "superhuman"

Shapes ==
    { Profile_new,
      Profile(Some("gsk"), Some("groq.com"), None, Some("llama-8b"), None, None),
      Profile(None, None, None, Some("llama-70b"), Some("rhyme"), Some("1.5")) }

Extends == {None} \cup {Some(name) : name \in ProfileNames \cup {UnknownName}}

ProfileChoices == {[shape EXCEPT !.extends = extends] : shape \in Shapes, extends \in Extends}

ConfigFiles == UNION {[names -> ProfileChoices] : names \in SUBSET ProfileNames}

CommandLines ==
    {Args(api_url, None, model, model, None, profile) :
        api_url \in {None, Some("localhost")},
        model \in {None, Some("gemma")},
        profile \in {None} \cup {Some(name) : name \in ProfileNames \cup {UnknownName}}}

(***************************************************************************)
(* One streamed response (main.rs, get_and_print_completion, lines 46-54). *)
(* stream is the text the server has still to send, fed the fragments      *)
(* delivered so far, concatenated; the stream may end after any fragment.  *)
(***************************************************************************)
VARIABLES stream, fed, original, highlighted, written, sink, pc, ret

(***************************************************************************)
(* The interactive session (main.rs, run_interactive_loop): messages is    *)
(* the conversation, reported what has been printed to the standard error, *)
(* turn the number of lines read; arrived and calls are the history of the *)
(* response in progress: the items that arrived and the calls made on its  *)
(* StreamWriter.  In a session pc also holds the position of the loop, and *)
(* sink is what the standard output has received from the last writer.     *)
(***************************************************************************)
VARIABLES messages, reported, turn, arrived, calls

loop_vars == <<messages, reported, turn, arrived, calls>>

(***************************************************************************)
(* One call of get_config (config.rs): profiles is the parsed              *)
(* configuration file, args the command line, cpc the position in the      *)
(* call, current and hierarchy the locals of flatten_profile_hierarchy,    *)
(* outcome the result of the call.                                         *)
(***************************************************************************)
VARIABLES profiles, args, cpc, current, hierarchy, outcome

config_vars == <<profiles, args, cpc, current, hierarchy, outcome>>

writer_vars == <<stream, fed, original, highlighted, written, sink, pc, ret>>

vars ==
    <<stream, fed, original, highlighted, written, sink, pc, ret,
      messages, reported, turn, arrived, calls,
      profiles, args, cpc, current, hierarchy, outcome>>

\* No call of get_config is in progress.
NoConfig ==
    /\ profiles = <<>>
    /\ args = <<>>
    /\ cpc = "idle"
    /\ current = <<>>
    /\ hierarchy = <<>>
    /\ outcome = <<>>

\* No session is running.
NoSession ==
    /\ messages = <<>>
    /\ reported = <<>>
    /\ turn = 0
    /\ arrived = <<>>
    /\ calls = <<>>

self ==
    [original |-> original, highlighted |-> highlighted, written |-> written,
     sink |-> sink, panicked |-> pc = "panicked"]

Store(w, next_pc) ==
    /\ original' = w.original
    /\ highlighted' = w.highlighted
    /\ written' = w.written
    /\ sink' = w.sink
    /\ pc' = IF w.panicked THEN "panicked" ELSE next_pc

Init ==
    /\ stream \in Inputs
    /\ fed = <<>>
    /\ original = new.original
    /\ highlighted = new.highlighted
    /\ written = new.written
    /\ sink = new.sink
    /\ pc = "streaming"
    /\ ret = <<>>
    /\ NoSession
    /\ NoConfig

\* while let Some(event) = events.next(): writer.add_token(&token)
AddToken ==
    /\ pc = "streaming"
    /\ \E k \in 1 .. Len(stream) :
          LET token == SubSeq(stream, 1, k)
          IN /\ stream' = SubSeq(stream, k + 1, Len(stream))
             /\ fed' = fed \o token
             /\ \E w \in {add_token(self, token)} : Store(w, "streaming")
    /\ UNCHANGED <<ret, loop_vars, config_vars>>

\* the stream has ended: writer.complete()
Complete ==
    /\ pc = "streaming"
    /\ \E w \in {complete(self)} :
          /\ Store(w, "done")
          /\ ret' = IF w.panicked THEN ret ELSE w.original
    /\ UNCHANGED <<stream, fed, loop_vars, config_vars>>

Next == AddToken \/ Complete

Spec == Init /\ [][Next]_vars

(***************************************************************************)
(* The interactive session in streaming mode (main.rs, lines 45-54 and     *)
(* 63-96), with a tagger and a sink that may fail.                         *)
(***************************************************************************)
LoopInit ==
    /\ stream = <<>>
    /\ fed = <<>>
    /\ original = new.original
    /\ highlighted = new.highlighted
    /\ written = new.written
    /\ sink = new.sink
    /\ ret = <<>>
    /\ pc = "reading"
    /\ messages \in {create_messages(None), create_messages(Some(SystemPrompt))}
    /\ reported = <<>>
    /\ turn = 0
    /\ arrived = <<>>
    /\ calls = <<>>
    /\ NoConfig

\* get_and_print_completion has returned to the loop: lines 90-93.
Returned(error, completion) ==
    /\ messages' = push_completion(messages, error, completion)
    /\ reported' = eprinted(reported, error)
    /\ ret' = IF error = "" THEN completion ELSE ret

\* One line read from the console (lines 72-88) and, unless the loop ends or
\* the line is empty, StreamWriter::new() of line 46.
ReadInput ==
    /\ pc = "reading"
    /\ turn < MaxTurns
    /\ turn' = turn + 1
    /\ \E input \in ConsoleInputs :
          IF input = None \/ input[1] \in Quit
          THEN /\ pc' = "exited"
               /\ UNCHANGED <<stream, fed, original, highlighted, written, sink, ret,
                              messages, reported, arrived, calls>>
          ELSE IF input[1] = <<>>
          THEN UNCHANGED <<stream, fed, original, highlighted, written, sink, ret, pc,
                           messages, reported, arrived, calls>>
          ELSE /\ messages' = IF input[1] \in Retry THEN retried(messages)
                              ELSE Append(messages, Message("user", input[1]))
               /\ Store(new, "requesting")
               /\ stream' = <<>>
               /\ fed' = <<>>
               /\ arrived' = <<>>
               /\ calls' = <<>>
               /\ UNCHANGED <<ret, reported>>
    /\ UNCHANGED config_vars

\* stream_chat_completion(messages).await?, line 47: the request fails, or the
\* server starts to stream one of the responses.
OpenStream ==
    /\ pc = "requesting"
    /\ \E response \in Responses \cup {None} :
          IF response = None
          THEN /\ Returned("request", <<>>)
               /\ pc' = "reading"
               /\ UNCHANGED stream
          ELSE /\ stream' = response
               /\ pc' = "streaming"
               /\ UNCHANGED <<messages, reported, ret>>
    /\ UNCHANGED <<fed, original, highlighted, written, sink, turn, arrived, calls,
                   config_vars>>

\* One event of the stream, lines 48-51: event? and writer.add_token(&token)?.
NextEvent ==
    /\ pc = "streaming"
    /\ \E item \in Items(arrived, stream) :
          LET event == parse_event_data(item)
              token == event.value[1]
          IN /\ arrived' = Append(arrived, item)
             /\ IF event.error # ""
                THEN /\ Returned(event.error, <<>>)
                     /\ pc' = "reading"
                     /\ UNCHANGED <<stream, fed, original, highlighted, written, sink,
                                    calls>>
                ELSE IF event.value = None
                THEN UNCHANGED <<stream, fed, original, highlighted, written, sink, pc,
                                 ret, messages, reported, calls>>
                ELSE /\ stream' = SubSeq(stream, Len(token) + 1, Len(stream))
                     /\ fed' = fed \o token
                     /\ calls' = Append(calls, Call("add_token", token))
                     /\ \E fault \in Faults : \E r \in add_token_io(self, token, fault) :
                           /\ Store(r.writer, IF r.error = "" THEN "streaming" ELSE "reading")
                           /\ IF r.writer.panicked \/ r.error = ""
                              THEN UNCHANGED <<messages, reported, ret>>
                              ELSE Returned(r.error, <<>>)
    /\ UNCHANGED <<turn, config_vars>>

\* events.next() yields None: writer.complete()? of line 53, and the return.
StreamEnd ==
    /\ pc = "streaming"
    /\ arrived' = Append(arrived, End)
    /\ calls' = Append(calls, Call("complete", <<>>))
    /\ \E fault \in Faults : \E r \in complete_io(self, fault) :
          /\ Store(r.writer, "reading")
          /\ IF r.writer.panicked
             THEN UNCHANGED <<messages, reported, ret>>
             ELSE Returned(r.error, r.writer.original)
    /\ UNCHANGED <<stream, fed, turn, config_vars>>

LoopNext == ReadInput \/ OpenStream \/ NextEvent \/ StreamEnd

LoopSpec == LoopInit /\ [][LoopNext]_vars

(***************************************************************************)
(* get_config on a configuration file and a command line (config.rs,       *)
(* lines 136-209), one iteration of the loop of flatten_profile_hierarchy  *)
(* per step.                                                               *)
(***************************************************************************)
ConfigInit ==
    /\ profiles \in ConfigFiles
    /\ args \in CommandLines
    /\ cpc = "resolve"
    /\ current = Profile_new
    /\ hierarchy = <<>>
    /\ outcome = <<>>
    /\ stream = <<>>
    /\ fed = <<>>
    /\ original = new.original
    /\ highlighted = new.highlighted
    /\ written = new.written
    /\ sink = new.sink
    /\ pc = "configuring"
    /\ ret = <<>>
    /\ NoSession

\* resolve_profile has returned selected: the rest of get_config.
Resolved(selected) ==
    /\ outcome' = configured(selected, args)
    /\ cpc' = "done"

\* resolve_profile, up to the loop of flatten_profile_hierarchy.
ResolveProfile ==
    /\ cpc = "resolve"
    /\ LET name == selected_name(args.profile)
       IN IF name \in DOMAIN profiles
          THEN IF profiles[name].extends = None
               THEN Resolved(Ok(profiles[name])) /\ UNCHANGED <<current, hierarchy>>
               ELSE /\ current' = profiles[name]
                    /\ hierarchy' = <<profiles[name]>>
                    /\ cpc' = "flatten"
                    /\ UNCHANGED outcome
          ELSE Resolved(unresolved(args.profile)) /\ UNCHANGED <<current, hierarchy>>
    /\ UNCHANGED <<profiles, args, writer_vars, loop_vars>>

\* One test of while let Some(name) = &current.extends: an iteration, or the
\* end of the loop, the merge and the return.
FlattenStep ==
    /\ cpc = "flatten"
    /\ IF current.extends = None
       THEN /\ Resolved(Ok(merged(hierarchy, Len(hierarchy), Profile_new)))
            /\ UNCHANGED <<current, hierarchy>>
       ELSE LET name == current.extends[1]
            IN IF name \notin DOMAIN profiles
               THEN Resolved(Err(NoSuchProfile(name))) /\ UNCHANGED <<current, hierarchy>>
               ELSE IF contains(hierarchy, profiles[name])
               THEN /\ Resolved(Err(CircularReferences(name)))
                    /\ UNCHANGED <<current, hierarchy>>
               ELSE /\ hierarchy' = Append(hierarchy, profiles[name])
                    /\ current' = profiles[name]
                    /\ UNCHANGED <<cpc, outcome>>
    /\ UNCHANGED <<profiles, args, writer_vars, loop_vars>>

ConfigNext == ResolveProfile \/ FlattenStep

ConfigSpec == ConfigInit /\ [][ConfigNext]_vars

(***************************************************************************)
(* What a step did, read off the two states.                               *)
(***************************************************************************)
\* The step is an add_token call; its fragment is what fed grew by.
IsAddToken == fed' # fed

Fragment == SubSeq(fed', Len(fed) + 1, Len(fed'))

\* The step is a complete() call.
IsComplete == fed' = fed /\ pc = "streaming" /\ pc' # "streaming"

(***************************************************************************)
(* A terminal reading the styled bytes: the three SGR axes, and the axes   *)
(* under which each text byte is printed.                                  *)
(***************************************************************************)
DefaultAxes == [weight |-> "regular", fg |-> "default", bg |-> "default"]

\* The effect of the SGR sequence ESC [ code m.
Sgr(axes, code) ==
    CASE code = <<"1">> -> [axes EXCEPT !.weight = "bold"]
      [] code = <<"2", "2">> -> [axes EXCEPT !.weight = "regular"]
      [] code = <<"3", "3">> -> [axes EXCEPT !.fg = "yellow"]
      [] code = <<"3", "9">> -> [axes EXCEPT !.fg = "default"]
      [] code = <<"1", "0", "0">> -> [axes EXCEPT !.bg = "gray"]
      [] code = <<"4", "9">> -> [axes EXCEPT !.bg = "default"]
      [] code = <<"0">> -> DefaultAxes
      [] OTHER -> axes

\* The axes of each text byte of h, in order (style sequences print nothing).
RECURSIVE Printed(_, _, _)
Printed(h, i, axes) ==
    IF i > Len(h) THEN <<>>
    ELSE IF h[i] = ESC
    THEN LET m == Min({j \in i .. Len(h) : h[j] = "m"})
         IN Printed(h, m + 1, Sgr(axes, SubSeq(h, i + 2, m - 1)))
    ELSE <<axes>> \o Printed(h, i + 1, axes)

(***************************************************************************)
(* C1-C10.                                                                 *)
(***************************************************************************)

\* C1 (as claimed): when the fragments of a line-terminated text S have been
\* added and complete() has returned, the sink holds exactly
\* highlight_markdown(S).
C1_StreamingEquivalence ==
    (pc = "done" /\ ends_with(fed, NL)) => sink = highlight_markdown(fed)

\* C2 (as claimed): after every re-styling pass the first written bytes of the
\* fresh styled buffer are the bytes the sink received as its first written
\* bytes (all it had received when the pass began).
C2_EmittedPrefixImmutable ==
    /\ written <= Len(highlighted)
    /\ Slice(highlighted, 0, written) = Slice(sink, 0, written)

\* C3 (as claimed): once complete() has returned, the slices written for the
\* response, in the order written, are consecutive slices of the final styled
\* buffer covering it without overlap or gap: put together they are that
\* buffer, and so as many bytes.
C3_NoDuplicateOrMissingBytes ==
    pc = "done" => (sink = highlighted /\ Len(sink) = Len(highlighted))

\* What the code does keep of C3: written counts the bytes written. Each call
\* appends the slice of its own fresh styled buffer from written on (up to the
\* new written in add_token, up to the end in complete()), so the byte counts
\* add up to the length of the final styled buffer even where the bytes differ.
WrittenCountsTheSink ==
    [][/\ IsAddToken =>
            /\ written <= written'
            /\ sink' = sink \o Slice(highlighted', written, written')
            /\ Len(sink') = written'
       /\ (IsComplete /\ pc' = "done") =>
            /\ sink' = sink \o SliceFrom(highlighted', written)
            /\ Len(sink') = Len(highlighted')]_vars

BoldStyled == STYLE_BOLD \o <<"*", "*", "b", "o", "l", "d", "*", "*">> \o STYLE_REGULAR

\* C5 (as claimed): add_token("**bo") writes nothing, and once
\* add_token("ld**\n") has returned the sink holds the line as one bold span.
C5_BoldAfterSecondFragment ==
    [][/\ (fed = <<>> /\ fed' = BoldFirst) => sink' = <<>>
       /\ (fed = BoldFirst /\ fed' = Bold) => IsPrefix(BoldStyled, sink')]_vars

\* C5 (amended): add_token("**bo") and add_token("ld**\n") both write nothing
\* (the pass of the second keeps the only line back); complete() then writes
\* the line as one bold span followed by its line terminator, and that is all
\* the sink ever receives.
C5_Scenario2 ==
    [][/\ (fed = <<>> /\ fed' = BoldFirst) => sink' = <<>>
       /\ (fed = BoldFirst /\ fed' = Bold) => (sink' = <<>> /\ pc' = "streaming")
       /\ (fed = Bold /\ IsComplete) =>
              (sink = <<>> /\ pc' = "done" /\ sink' = BoldStyled \o <<NL>>)]_vars

C5_Witness == pc = "done" /\ fed = Bold /\ sink = BoldStyled \o <<NL>>

\* C6 (as claimed): complete() on a writer that received no fragment returns
\* the empty string.
C6_EmptyResult == (pc # "streaming" /\ fed = <<>>) => (pc = "done" /\ ret = <<>>)

\* C6 (amended): complete() on a writer that received no fragment succeeds,
\* returns the line terminator it appended ("\n", not the empty string) and
\* writes exactly that empty line, without any style sequence.
C6_CompleteOnFresh ==
    (pc # "streaming" /\ fed = <<>>) =>
        (pc = "done" /\ ret = <<NL>> /\ sink = <<NL>> /\ original = <<NL>>)

C6_Witness == pc = "done" /\ fed = <<>>

\* C7: when complete() returns after one or more fragments, its result is
\* their concatenation, with one line terminator appended exactly when the
\* concatenation does not end with one; for "plain text" the result and the
\* emission are both "plain text\n".
C7_CompleteResult ==
    (pc = "done" /\ fed # <<>>) =>
        /\ ret = (IF ends_with(fed, NL) THEN fed ELSE fed \o <<NL>>)
        /\ fed = PlainText => (ret = PlainText \o <<NL>> /\ sink = PlainText \o <<NL>>)

C7_Witness == pc = "done" /\ fed = PlainText /\ ret = PlainText \o <<NL>>

\* C8: an add_token call whose fragment does not end with a line terminator
\* appends the fragment to the raw buffer and changes nothing else: no pass,
\* nothing written, styled buffer and written as they were.
C8_DeferredFragments ==
    [][(IsAddToken /\ ~ends_with(Fragment, NL)) =>
           /\ original' = original \o Fragment
           /\ UNCHANGED <<highlighted, written, sink, pc, ret>>]_vars

\* A line terminator has been delivered inside a fragment and no pass has run.
C8_Witness ==
    /\ pc = "streaming"
    /\ \E i \in 1 .. Len(fed) : fed[i] = NL
    /\ ~ends_with(fed, NL)
    /\ original = fed
    /\ highlighted = <<>>

TitleText == <<"#", " ", "T", "i", "t", "l", "e">>

\* C9 (as claimed): "# Title\n" is emitted as heading-begin, "# Title",
\* heading-end, "\n".
C9_HeadingEndBeforeNewline ==
    (pc = "done" /\ fed = Title) =>
        sink = STYLE_YELLOW_FG \o TitleText \o STYLE_DEFAULT_FG \o <<NL>>

\* C9 (amended): "# Title\n" is emitted as heading-begin, "# Title", "\n",
\* heading-end: the heading ends after its line terminator, so the heading-end
\* style follows the line terminator.
C9_Scenario1 ==
    (pc = "done" /\ fed = Title) =>
        sink = STYLE_YELLOW_FG \o TitleText \o <<NL>> \o STYLE_DEFAULT_FG

C9_Witness == pc = "done" /\ fed = Title /\ Len(sink) > Len(Title)

\* C10: in the styling of any raw buffer every byte of a heading is printed
\* with the heading foreground and every byte of a code span or fenced block
\* with the code background, whatever strong or code spans begin and end
\* inside or around it: an End of another axis resets neither.
C10_AxisIndependence ==
    LET tree == parse(original)
        axes == Printed(highlight_markdown(original), 1, DefaultAxes)
    IN \A n \in 1 .. Len(tree) : \A k \in tree[n].start .. (tree[n].end - 1) :
           /\ tree[n].kind = "atx_heading" => axes[k + 1].fg = "yellow"
           /\ tree[n].kind \in {"code_span", "fenced_code_block"} =>
                  axes[k + 1].bg = "gray"

\* The heading with a strong span inside and text after the span's end.
C10_Witness ==
    /\ original = Nested
    /\ \E n \in 1 .. Len(parse(original)) :
          /\ parse(original)[n].kind = "strong_emphasis"
          /\ parse(original)[n].end < Len(original) - 1

(***************************************************************************)
(* C11-C20.                                                                *)
(***************************************************************************)
BeginKinds == {"CodeBegin", "HeadingBegin", "StrongBegin"}

EndKinds == {"CodeEnd", "HeadingEnd", "StrongEnd"}

StyledKinds == {"atx_heading", "code_span", "fenced_code_block", "strong_emphasis"}

\* The tags of a list at one offset, in the order of the list.
TagsAt(tags, p) ==
    LET At(tag) == tag.position = p
    IN SelectSeq(tags, At)

\* C11: the tags find_tags returns for the parse tree of any raw buffer are
\* ascending by offset; among tags at one offset no Begin comes before an
\* End; and the tags at one offset are those the walk pushed at that offset,
\* in the order it pushed them.
C11_MarkerOrdering ==
    LET tree == parse(original)
        pushed == Walk(tree, 1, FALSE, <<>>)
        tags == find_tags(tree)
    IN /\ \A i \in 1 .. (Len(tags) - 1) : tags[i].position <= tags[i + 1].position
       /\ \A i, j \in 1 .. Len(tags) :
              (i < j /\ tags[i].position = tags[j].position
                     /\ tags[i].kind \in BeginKinds) => tags[j].kind \in BeginKinds
       /\ Len(tags) = Len(pushed)
       /\ \A p \in 0 .. Len(original) : TagsAt(tags, p) = TagsAt(pushed, p)

\* A construct ends where the next begins, and the walk pushed the tags in
\* another order than the sorted one (a styled node has a styled descendant).
C11_Witness ==
    LET tree == parse(original)
        tags == find_tags(tree)
    IN /\ tags # Walk(tree, 1, FALSE, <<>>)
       /\ \E i \in 1 .. (Len(tags) - 1) :
              /\ tags[i].position = tags[i + 1].position
              /\ tags[i].kind \in EndKinds
              /\ tags[i + 1].kind \in BeginKinds

\* C12: on the parse tree of any raw buffer the walk of find_tags ends having
\* examined every node exactly once; it pushes one Begin at the start and one
\* End at the end of every heading, code span, fenced block and strong span,
\* the Begin first and at an offset not after the End, and nothing for any
\* other node.
C12_OnePairPerConstruct ==
    LET tree == parse(original)
        order == Examined(tree, 1, FALSE, <<>>)
        pushed == Walk(tree, 1, FALSE, <<>>)
        tags == find_tags(tree)
        styled == {n \in 1 .. Len(tree) : tree[n].kind \in StyledKinds}
    IN /\ Len(order) = Len(tree)
       /\ {order[k] : k \in 1 .. Len(order)} = 1 .. Len(tree)
       /\ Len(tags) = 2 * Cardinality(styled)
       /\ \A p \in 0 .. Len(original) :
              /\ Cardinality({i \in 1 .. Len(tags) :
                                  tags[i].position = p /\ tags[i].kind \in BeginKinds})
                     = Cardinality({n \in styled : tree[n].start = p})
              /\ Cardinality({i \in 1 .. Len(tags) :
                                  tags[i].position = p /\ tags[i].kind \in EndKinds})
                     = Cardinality({n \in styled : tree[n].end = p})
       /\ \A k \in 1 .. Cardinality(styled) :
              /\ pushed[2 * k - 1].kind \in BeginKinds
              /\ pushed[2 * k].kind \in EndKinds
              /\ pushed[2 * k - 1].position <= pushed[2 * k].position
              /\ \E n \in styled : /\ tree[n].start = pushed[2 * k - 1].position
                                    /\ tree[n].end = pushed[2 * k].position

\* The tree has a fenced block and a styled node below a styled node, with
\* unstyled nodes (document, paragraph, inline) around them.
C12_Witness ==
    LET tree == parse(original)
    IN /\ \E n \in 1 .. Len(tree) : tree[n].kind = "fenced_code_block"
       /\ \E n \in 1 .. Len(tree) : tree[n].kind \in StyledKinds /\ tree[n].depth >= 3
       /\ \E n \in 1 .. Len(tree) : tree[n].kind = "paragraph"

\* The items that carry content, and the two kinds of call.
HasContent(item) == item.kind = "data" /\ item.content # None

IsAddTokenCall(call) == call.op = "add_token"

IsCompleteCall(call) == call.op = "complete"

\* C13: in a session every response gets a fresh StreamWriter; the add_token
\* calls on it are, in order, the contents of the content-bearing items that
\* arrived, one call each, and none for an item without content ([DONE], no
\* choice, no content); complete() is called at most once, as the last call,
\* exactly when the stream has ended, and the stream ends only after items
\* that were all read without error.
C13_OrchestratorProtocol ==
    LET content == SelectSeq(arrived, HasContent)
        adds == SelectSeq(calls, IsAddTokenCall)
        completes == SelectSeq(calls, IsCompleteCall)
    IN /\ pc = "requesting" =>
              (original = <<>> /\ highlighted = <<>> /\ written = 0 /\ calls = <<>>)
       /\ Len(adds) = Len(content)
       /\ \A i \in 1 .. Len(adds) : adds[i].token = content[i].content[1]
       /\ Len(completes) <= 1
       /\ completes # <<>> <=> (arrived # <<>> /\ arrived[Len(arrived)] = End)
       /\ completes # <<>> =>
              /\ calls[Len(calls)].op = "complete"
              /\ \A i \in 1 .. (Len(arrived) - 1) :
                     arrived[i].kind \notin {"end", "broken", "malformed"}

\* A response of two text tokens, opened by an event without content and
\* closed by [DONE], has been completed.
C13_Witness ==
    /\ pc = "reading"
    /\ Len(SelectSeq(calls, IsAddTokenCall)) = 2
    /\ Len(SelectSeq(calls, IsCompleteCall)) = 1
    /\ \E i \in 1 .. Len(arrived) : arrived[i] = Item("done", None)
    /\ arrived[1] = Item("data", None)
    /\ messages # <<>>
    /\ messages[Len(messages)] = Message("assistant", ret)

\* The response in progress ends in this step with an error: the stream has
\* not ended and no call has panicked.
ResponseFails ==
    /\ pc = "streaming"
    /\ pc' \notin {"streaming", "panicked"}
    /\ arrived'[Len(arrived')] # End

\* C14: when a stream event or an add_token call returns an error, the error
\* is reported, the loop is back at reading the next line, the conversation
\* is as it was (no Assistant message), what the sink received stays, and
\* complete() has not been called; no call is made on a writer once its
\* response is over: the next call is on the fresh writer of a new request.
C14_FailureIsTerminal ==
    [][/\ ResponseFails =>
              /\ pc' = "reading"
              /\ Len(reported') = Len(reported) + 1
              /\ messages' = messages
              /\ IsPrefix(sink, sink')
              /\ \A i \in 1 .. Len(calls') : calls'[i].op # "complete"
       /\ pc \in {"reading", "exited"} =>
              \/ calls' = calls /\ sink' = sink /\ written' = written
              \/ /\ pc' = "requesting"
                 /\ calls' = <<>>
                 /\ original' = <<>>
                 /\ written' = 0]_vars

\* An add_token call has failed after the writer had written, and the loop is
\* to read the next line.
C14_Witness ==
    /\ pc = "reading"
    /\ turn < MaxTurns
    /\ reported # <<>>
    /\ calls # <<>>
    /\ calls[Len(calls)].op = "add_token"
    /\ arrived[Len(arrived)].kind = "data"
    /\ sink # <<>>

\* The error the step reports, "" if none.
Reported == IF reported' # reported THEN reported'[Len(reported')] ELSE ""

\* C19: a call in which the tagger, the write or the flush fails returns the
\* error and leaves written as it was (a failing tagger also leaves the styled
\* buffer and the sink as they were); an add_token call that succeeds has
\* advanced written by exactly the number of bytes the sink received, the
\* bytes of the fresh styled buffer between the old and the new written.
C19_AllOrNothingPass ==
    [][(pc = "streaming" /\ calls' # calls) =>
           /\ Reported \in {"tagger", "write", "flush"} =>
                  (written' = written /\ pc' = "reading" /\ messages' = messages)
           /\ Reported = "tagger" => (highlighted' = highlighted /\ sink' = sink)
           /\ (Reported = "" /\ pc' = "streaming") =>
                  /\ written' = written + (Len(sink') - Len(sink))
                  /\ sink' = sink \o Slice(highlighted', written, written')]_vars

\* complete() has failed in its write after an add_token call had advanced
\* written: the sink holds bytes that written does not count.
C19_Witness ==
    /\ pc = "reading"
    /\ reported # <<>>
    /\ reported[Len(reported)] = "write"
    /\ calls[Len(calls)].op = "complete"
    /\ written > 0
    /\ Len(sink) > written

\* Where following extends by name from a profile name leads: to a name the
\* file does not have (missing), back to a name already followed (cycle), or
\* to a profile that extends nothing (root).
RECURSIVE Follow(_, _)
Follow(name, seen) ==
    IF name \notin DOMAIN profiles THEN [end |-> "missing", name |-> name]
    ELSE IF name \in seen THEN [end |-> "cycle", name |-> name]
    ELSE IF profiles[name].extends = None THEN [end |-> "root", name |-> name]
    ELSE Follow(profiles[name].extends[1], seen \cup {name})

Selected == IF args.profile = None THEN "default" ELSE args.profile[1]

\* The chain of the call: no profile at all when no profile is asked for and
\* the file has no default profile.
Chain ==
    IF args.profile = None /\ "default" \notin DOMAIN profiles
    THEN [end |-> "fallback", name |-> "default"]
    ELSE Follow(Selected, {})

\* The value of a field in a profile or else in its nearest ancestor.
RECURSIVE Inherited(_, _)
Inherited(name, field) ==
    IF profiles[name][field] # None THEN profiles[name][field]
    ELSE IF profiles[name].extends = None THEN None
    ELSE Inherited(profiles[name].extends[1], field)

Precedence(field) ==
    IF args[field] # None THEN args[field]
    ELSE IF Chain.end = "fallback" THEN None
    ELSE Inherited(Selected, field)

\* C15 (as claimed): where the selected chain resolves, get_config returns a
\* configuration whose every field is the argument if given, else the value
\* of the selected profile, else of its nearest ancestor that has one, else
\* none.
C15_FieldPrecedence ==
    (cpc = "done" /\ Chain.end \in {"root", "fallback"}) =>
        /\ outcome.error = <<>>
        /\ Some(outcome.value.api_url) = Precedence("api_url")
        /\ Some(outcome.value.model) = Precedence("model")
        /\ outcome.value.api_key = Precedence("api_key")
        /\ outcome.value.system_prompt = Precedence("system_prompt")
        /\ outcome.value.temperature = Precedence("temperature")

\* C15 (amended): where the selected chain resolves, every field takes the
\* argument if given, else the value of the selected profile, else of its
\* nearest ancestor that has one, else none; get_config fails with "No api_url
\* provided" when api_url is none, else with "No model provided" when model
\* is none, and otherwise returns the configuration of these values.
C15_ConfigurationPrecedence ==
    (cpc = "done" /\ Chain.end \in {"root", "fallback"}) =>
        outcome =
            IF Precedence("api_url") = None THEN Err(NoApiUrl)
            ELSE IF Precedence("model") = None THEN Err(NoModel)
            ELSE Ok(Config(Precedence("api_url")[1], Precedence("api_key"),
                           Precedence("model")[1], Precedence("system_prompt"),
                           Precedence("temperature")))

\* A configuration of three sources: the model of the selected profile, which
\* its parent also defines, the URL of the command line, which the parent
\* also defines, and the key of the parent.
C15_Witness ==
    /\ cpc = "done"
    /\ outcome.error = <<>>
    /\ Len(hierarchy) >= 2
    /\ hierarchy[1].model # None
    /\ hierarchy[2].model \notin {None, hierarchy[1].model}
    /\ outcome.value.model = hierarchy[1].model[1]
    /\ hierarchy[2].api_url # None
    /\ args.api_url \notin {None, hierarchy[2].api_url}
    /\ outcome.value.api_url = args.api_url[1]
    /\ hierarchy[1].api_key = None
    /\ outcome.value.api_key = hierarchy[2].api_key
    /\ outcome.value.api_key # None

\* C16 (as claimed): flatten_profile_hierarchy ends, its hierarchy never longer
\* than the file has profiles, and when following extends from the selected
\* profile leads back to a profile already on the chain, get_config fails with
\* the circular-references error naming the reference that leads back.
C16_CircularInheritance ==
    /\ cpc # "idle" => Len(hierarchy) <= Cardinality(DOMAIN profiles)
    /\ (cpc = "done" /\ Chain.end = "cycle") =>
           outcome = Err(CircularReferences(Chain.name))

\* C17: when following extends from an explicitly named profile, or from the
\* default profile of the file, comes to a name the file does not have (the
\* explicit name itself included), get_config fails with the
\* no-such-profile error naming it; with no profile argument and no default
\* profile in the file the configuration is that of the command line alone.
C17_UnknownProfiles ==
    cpc = "done" =>
        /\ Chain.end = "missing" => outcome = Err(NoSuchProfile(Chain.name))
        /\ Chain.end = "fallback" =>
               outcome =
                   IF args.api_url = None THEN Err(NoApiUrl)
                   ELSE IF args.model = None THEN Err(NoModel)
                   ELSE Ok(Config(args.api_url[1], args.api_key, args.model[1],
                                  args.system_prompt, args.temperature))
        /\ (outcome.error # <<>> /\ outcome.error[1] = NoSuchProfile(Selected)[1]) =>
               Chain.end = "missing"

\* The parent of the selected profile extends a name the file does not have.
C17_Witness ==
    /\ cpc = "done"
    /\ Len(hierarchy) = 2
    /\ hierarchy[2].extends = Some(UnknownName)
    /\ outcome = Err(NoSuchProfile(UnknownName))

\* C18 (as claimed): no call panics, and after every pass written is at most
\* the length of the styled buffer.
C18_CursorSafety == pc # "panicked" /\ written <= Len(highlighted)

\* The text bytes of h: h without its style sequences.
RECURSIVE Unstyled(_, _)
Unstyled(h, i) ==
    IF i > Len(h) THEN <<>>
    ELSE IF h[i] = ESC
    THEN Unstyled(h, Min({j \in i .. Len(h) : h[j] = "m"}) + 1)
    ELSE <<h[i]>> \o Unstyled(h, i + 1)

\* C20: the styling of any raw buffer is the buffer with one style sequence
\* inserted per tag, each at its tag's offset: without the style sequences it
\* is the buffer itself, and it is never shorter than the buffer.
C20_TextPreservation ==
    LET h == highlight_markdown(original)
        tags == find_tags(parse(original))
    IN /\ Unstyled(h, 1) = original
       /\ Len(h) >= Len(original)
       /\ Cardinality({i \in 1 .. Len(h) : h[i] = ESC}) = Len(tags)
       /\ \A i \in 1 .. Len(h) :
              h[i] = ESC =>
                  \E t \in 1 .. Len(tags) :
                      tags[t].position = Len(Unstyled(SubSeq(h, 1, i - 1), 1))

\* A buffer with text before, between and after its style sequences.
C20_Witness ==
    LET h == highlight_markdown(original)
    IN /\ Len(h) > Len(original)
       /\ h[1] # ESC
       /\ h[Len(h)] = NL
       /\ \E i \in 1 .. Len(h) : h[i] = ESC

(***************************************************************************)
(* C21-C23.                                                                *)
(***************************************************************************)

\* The axes a terminal is left with after reading all of h.
RECURSIVE Terminal(_, _, _)
Terminal(h, i, axes) ==
    IF i > Len(h) THEN axes
    ELSE IF h[i] = ESC
    THEN LET m == Min({j \in i .. Len(h) : h[j] = "m"})
         IN Terminal(h, m + 1, Sgr(axes, SubSeq(h, i + 2, m - 1)))
    ELSE Terminal(h, i + 1, axes)

\* The End kind that closes a Begin kind.
Closing(kind) ==
    CASE kind = "HeadingBegin" -> "HeadingEnd"
      [] kind = "StrongBegin" -> "StrongEnd"
      [] kind = "CodeBegin" -> "CodeEnd"

\* The styling of any raw buffer leaves the terminal with default weight,
\* foreground and background, and every Begin tag of the sorted tags is
\* followed by an End tag of its kind.
StylesClosedInHighlight ==
    LET tags == find_tags(parse(original))
    IN /\ Terminal(highlight_markdown(original), 1, DefaultAxes) = DefaultAxes
       /\ \A i \in 1 .. Len(tags) :
              tags[i].kind \in BeginKinds =>
                  \E j \in (i + 1) .. Len(tags) :
                      /\ tags[j].kind = Closing(tags[i].kind)
                      /\ tags[j].position > tags[i].position

\* C21 (as claimed): the styling of any raw buffer leaves the terminal with
\* default weight, foreground and background, every Begin tag being followed
\* by its End tag, and so does the whole stream a response has emitted when
\* complete() has returned.
C21_StylesClosedAtEnd ==
    /\ StylesClosedInHighlight
    /\ pc = "done" => Terminal(sink, 1, DefaultAxes) = DefaultAxes

\* The outcome is the circular-references error, whatever name it gives.
IsCircularError == outcome.error # <<>> /\ outcome.error[1] = CircularReferences("")[1]

\* C22: when following extends by name from the selected profile comes to a
\* profile that extends nothing, without coming to a missing name or back to
\* a name already followed, get_config does not fail with the
\* circular-references error, whatever values the profiles on the way have.
C22_NoFalseCycle ==
    (cpc = "done" /\ Chain.end = "root") => ~IsCircularError

\* A chain of three profiles that differ in nothing but extends has resolved
\* without the circular-references error.
C22_Witness ==
    /\ cpc = "done"
    /\ Chain.end = "root"
    /\ Len(hierarchy) = 3
    /\ \A i \in 1 .. 3 :
           [hierarchy[i] EXCEPT !.extends = None] = [hierarchy[1] EXCEPT !.extends = None]
    /\ hierarchy[1].model # None
    /\ ~IsCircularError

\* The step reads a line from the console.
ReadsLine == turn' = turn + 1

\* The step is the successful return of get_and_print_completion.
CompletionSucceeds ==
    /\ pc = "streaming"
    /\ pc' = "reading"
    /\ reported' = reported

\* C23: a step of the session changes the conversation in one of three ways
\* only.  A line read adds one User message with the non-empty line as its
\* content, or (the retry command) removes the last message, which then is an
\* Assistant message, or leaves the conversation as it is, which with a
\* request following happens only where the last message is no Assistant
\* message; in all three cases a completion is requested next.  A successful
\* completion adds one Assistant message.  No other step changes the
\* conversation, a System message at its head stays there, and a line read
\* that leads to no request and does not end the session (the empty line)
\* changes nothing.
C23_HistoryDiscipline ==
    [][/\ ReadsLine =>
              \/ /\ messages' = messages
                 /\ pc' = "requesting" =>
                        (messages = <<>> \/ messages[Len(messages)].role # "assistant")
              \/ /\ Len(messages') = Len(messages) + 1
                 /\ SubSeq(messages', 1, Len(messages)) = messages
                 /\ messages'[Len(messages')].role = "user"
                 /\ messages'[Len(messages')].content # <<>>
                 /\ pc' = "requesting"
              \/ /\ messages # <<>>
                 /\ messages' = SubSeq(messages, 1, Len(messages) - 1)
                 /\ messages[Len(messages)].role = "assistant"
                 /\ pc' = "requesting"
       /\ (ReadsLine /\ pc' = "reading") =>
              UNCHANGED <<writer_vars, messages, reported, arrived, calls>>
       /\ ~ReadsLine =>
              IF CompletionSucceeds
              THEN messages' = Append(messages, Message("assistant", ret'))
              ELSE messages' = messages
       /\ (messages # <<>> /\ messages[1].role = "system") =>
              (messages' # <<>> /\ messages'[1] = messages[1])
       /\ \A i \in 1 .. Len(messages) :
              messages[i].role # "assistant" =>
                  (Len(messages') >= i /\ messages'[i] = messages[i])]_vars

\* After a prompt was answered, the retry command has removed the answer and a
\* completion is requested for the System message and the prompt.
C23_Witness ==
    /\ pc = "requesting"
    /\ turn = 2
    /\ ret # <<>>
    /\ messages = <<Message("system", SystemPrompt), Message("user", UserPrompt)>>

====
